---- MODULE Spec2Model ----
(***************************************************************************)
(* Worktree routes of the server: POST /switch-branch, POST /list and      *)
(* POST /list-branches; and the allowed-paths list of libs/platform        *)
(* (security.ts).                                                          *)
(*                                                                         *)
(* A string is a sequence of tokens (a token stands for a run of           *)
(* characters: a word, a blank, a line break), so that trim, split,        *)
(* startsWith, slice, replace and includes are computed, not assumed.      *)
(*                                                                         *)
(* An action is one continuation of an async handler: the awaited git      *)
(* command completes with one of its outcomes, and the handler runs on to  *)
(* its next await or to its response.                                      *)
(***************************************************************************)
EXTENDS Integers, Sequences, FiniteSets, TLC

VARIABLES
    \* the repository on disk (two worktrees of one repository)
    head,           \* worktree path -> branch checked out there
    changes,        \* worktree path -> set of uncommitted changes
    shelf,          \* the repository's stash stack, newest first
    \* POST /switch-branch, per request in flight
    pc,             \* op -> the await the handler is parked on
    req,            \* op -> request body
    previousBranch, \* op -> const previousBranch (line 42)
    hasChanges,     \* op -> const hasChanges (line 76)
    stashed,        \* op -> let stashed (line 77)
    checkoutError,  \* op -> the error caught at line 135
    resp,           \* op -> responses sent on res, in order
    calls,          \* op -> execAsync calls issued, in order, with outcome
    pre,            \* op -> worktree state when the request arrived
    post,           \* op -> worktree state when the response was sent
    overlap,        \* a request arrived while another was being served
    \* POST /list
    lpc,            \* the await the list handler is parked on
    lreq,           \* request body of the list request
    lstdout,        \* stdout of `git worktree list --porcelain`
    worktrees,      \* const worktrees: WorktreeInfo[] (line 42)
    lidx,           \* position of the for-of loop of line 68
    lresp,          \* responses sent on res, in order
    lcalls,         \* execAsync calls issued by the list handler
    \* POST /list-branches
    bpc,            \* the await the list-branches handler is parked on
    breq,           \* request body of the list-branches request
    currentBranch,  \* const currentBranch (line 38)
    bresp,          \* responses sent on res, in order
    bcalls,         \* execAsync calls issued by the list-branches handler
    \* libs/platform/src/security.ts
    allowedPaths,   \* const allowedPaths = new Set<string>() (line 36), in insertion order
    checked,        \* the last call of isPathAllowed and what it returned
    validated,      \* what the last call of validatePath returned
    listed          \* what the last call of getAllowedPaths returned

gitVars    == <<head, changes, shelf>>
switchVars == <<pc, req, previousBranch, hasChanges, stashed, checkoutError, resp, calls, pre, post,
               overlap>>
listVars   == <<lpc, lreq, lstdout, worktrees, lidx, lresp, lcalls>>
branchVars == <<bpc, breq, currentBranch, bresp, bcalls>>
securityVars == <<allowedPaths, checked, validated, listed>>
vars       == <<head, changes, shelf, pc, req, previousBranch, hasChanges, stashed, checkoutError,
                resp, calls, pre, post, overlap, lpc, lreq, lstdout, worktrees, lidx, lresp, lcalls,
                bpc, breq, currentBranch, bresp, bcalls,
                allowedPaths, checked, validated, listed>>

----------------------------------------------------------------------------
(* Strings *)

WhiteSpace == {" ", "\n"}

RECURSIVE TrimStart(_)
TrimStart(s) ==
    IF s # <<>> /\ Head(s) \in WhiteSpace THEN TrimStart(Tail(s)) ELSE s

RECURSIVE TrimEnd(_)
TrimEnd(s) ==
    IF s # <<>> /\ s[Len(s)] \in WhiteSpace THEN TrimEnd(SubSeq(s, 1, Len(s) - 1)) ELSE s

\* String.prototype.trim
Trim(s) == TrimEnd(TrimStart(s))

\* String.prototype.includes
Includes(s, sub) ==
    \E i \in 1 .. (Len(s) - Len(sub) + 1) : SubSeq(s, i, i + Len(sub) - 1) = sub

\* String.prototype.startsWith
StartsWith(s, prefix) ==
    Len(s) >= Len(prefix) /\ SubSeq(s, 1, Len(prefix)) = prefix

\* String.prototype.slice(n), n counted in tokens
Slice(s, n) == SubSeq(s, n + 1, Len(s))

RECURSIVE Split(_, _)
\* String.prototype.split(sep) for a one-token separator: always at least one piece
Split(s, sep) ==
    IF \A i \in 1 .. Len(s) : s[i] # sep
    THEN <<s>>
    ELSE LET k == CHOOSE i \in 1 .. Len(s) :
                      s[i] = sep /\ \A j \in 1 .. (i - 1) : s[j] # sep
         IN  <<SubSeq(s, 1, k - 1)>> \o Split(SubSeq(s, k + 1, Len(s)), sep)

\* String.prototype.replace(pattern, "") with a string pattern: first occurrence only
ReplaceFirst(s, pat) ==
    IF ~Includes(s, pat)
    THEN s
    ELSE LET k == CHOOSE i \in 1 .. (Len(s) - Len(pat) + 1) :
                      /\ SubSeq(s, i, i + Len(pat) - 1) = pat
                      /\ \A j \in 1 .. (i - 1) : SubSeq(s, j, j + Len(pat) - 1) # pat
         IN  SubSeq(s, 1, k - 1) \o SubSeq(s, k + Len(pat), Len(s))

----------------------------------------------------------------------------
(* The repository the handlers run git against *)

Ops == {"op1", "op2"}

WorktreePaths == {<<"/w1">>, <<"/w2">>}

Branches == {<<"main">>, <<"dev">>, <<"feat">>}

\* uncommitted changes: edits of tracked files, untracked files, and files
\* left with conflict markers (an unmerged index) by a conflicting restore
TrackedEdits   == {"t1", "t2", "old"}
UntrackedFiles == {"u1", "u2"}
ConflictMark   == "conflict"
ChangeOrder    == <<"t1", "t2", "old", "u1", "u2", "conflict">>

OwnChanges(w) == IF w = <<"/w1">> THEN {"t1", "u1"} ELSE {"t2", "u2"}

\* a stash entry left on the stack by the user before any request
UserEntry == [owner |-> "user", content |-> {"old"}]

----------------------------------------------------------------------------
(* git, as the handlers see it through execAsync.  Every command either   *)
(* exits 0 or exits nonzero; a command that cannot run (tool missing,     *)
(* directory gone, lock held) is one of its failures.  An outcome is the  *)
(* exit status, the captured output and the state of the worktree `w`     *)
(* and of the stash stack after the command.                              *)

Outcome(ok, stdout, stderr, h, c, sh) ==
    [ok |-> ok, stdout |-> stdout, stderr |-> stderr, head |-> h, changes |-> c, shelf |-> sh]

Unchanged(w, ok, stdout, stderr) ==
    Outcome(ok, stdout, stderr, head[w], changes[w], shelf)

\* the error promisify(exec) rejects with: message is "Command failed: <cmd>\n<stderr>"
ExecError(cmd, out) ==
    [cmd |-> cmd, stderr |-> out.stderr,
     message |-> <<"Command failed:", cmd, "\n">> \o out.stderr]

NoError == [cmd |-> "", stderr |-> <<>>, message |-> <<>>]

ToolFailure == <<"fatal:">>

\* git rev-parse --abbrev-ref HEAD
GitRevParseHead(w) ==
    { Unchanged(w, TRUE, head[w] \o <<"\n">>, <<>>),
      Unchanged(w, FALSE, <<>>, ToolFailure) }

\* git rev-parse --verify <branchName>: exits 0 only if the ref resolves
GitRevParseVerify(w, b) ==
    (IF b \in Branches THEN { Unchanged(w, TRUE, b \o <<"\n">>, <<>>) } ELSE {})
    \cup { Unchanged(w, FALSE, <<>>, ToolFailure) }

StatusLine(c) ==
    IF c \in UntrackedFiles THEN <<"??", " ", c, "\n">>
    ELSE IF c = ConflictMark THEN <<"UU", " ", c, "\n">>
    ELSE <<" ", "M", " ", c, "\n">>

RECURSIVE StatusLines(_, _)
StatusLines(order, cs) ==
    IF order = <<>> THEN <<>>
    ELSE (IF Head(order) \in cs THEN StatusLine(Head(order)) ELSE <<>>)
         \o StatusLines(Tail(order), cs)

\* git status --porcelain: one line per changed or untracked entry
GitStatus(w) ==
    { Unchanged(w, TRUE, StatusLines(ChangeOrder, changes[w]), <<>>),
      Unchanged(w, FALSE, <<>>, ToolFailure) }

\* git stash push -m ...: shelves the edits of tracked files (untracked files
\* stay, there is no -u); with nothing to shelve it prints "No local changes
\* to save", creates no entry and still exits 0; refuses an unmerged index
GitStashPush(w, o) ==
    LET tracked == changes[w] \cap TrackedEdits
        entry   == [owner |-> o, content |-> tracked]
    IN  { Unchanged(w, FALSE, <<>>, ToolFailure) }
        \cup (IF ConflictMark \in changes[w] THEN {}
              ELSE IF tracked = {}
              THEN { Unchanged(w, TRUE, <<"No local changes to save", "\n">>, <<>>) }
              ELSE { Outcome(TRUE, <<"Saved working directory", "\n">>, <<>>,
                             head[w], changes[w] \ tracked, <<entry>> \o shelf) })

\* git checkout <branchName>: refuses a branch checked out in another
\* worktree; uncommitted changes present are carried along or make it fail
GitCheckout(w, b) ==
    { Unchanged(w, FALSE, <<>>, ToolFailure) }
    \cup (IF b \in Branches /\ \A v \in WorktreePaths \ {w} : head[v] # b
          THEN { Outcome(TRUE, <<>>, <<"Switched to branch", "\n">>, b, changes[w], shelf) }
          ELSE {})

\* what the tool may print on stderr when `git stash pop` exits nonzero
PopStderrTexts ==
    { <<>>, <<"error:", "\n">>, <<"CONFLICT", "(content)", "\n">>, <<"error:", "conflict", "\n">> }

\* git stash pop: applies the newest entry and drops it only if it applied;
\* on a conflict the files are left with conflict markers and the entry is
\* kept ("The stash entry is kept in case you need it again"); needs a
\* merged index
GitStashPop(w) ==
    IF shelf = <<>>
    THEN { Unchanged(w, FALSE, <<>>, <<"No stash entries found.", "\n">>) }
    ELSE (IF ConflictMark \in changes[w] THEN {}
          ELSE { Outcome(TRUE, <<"Dropped refs/stash@{0}", "\n">>, <<>>, head[w],
                         changes[w] \cup Head(shelf).content, Tail(shelf)) })
         \cup { Outcome(FALSE, <<"CONFLICT", "(content)", "\n">>, e, head[w],
                        changes[w] \cup {ConflictMark}, shelf) : e \in PopStderrTexts }
         \cup { Unchanged(w, FALSE, <<>>, e) : e \in PopStderrTexts \ {<<>>} }

----------------------------------------------------------------------------
(* POST /switch-branch *)

TargetNames == Branches \cup {<<>>, <<"ghost">>}

NoRequest == [worktreePath |-> <<>>, branchName |-> <<>>]

NoSnap == [head |-> <<>>, changes |-> {}, shelf |-> <<>>]

Wt(o) == req[o].worktreePath

\* getErrorMessage of ../common.js
getErrorMessage(e) == e.message

\* the branch left reported as the current one
SuccessResponseStale(prev, cur, msg, st, conflict) ==
    [status |-> 200, success |-> TRUE, error |-> <<>>, previousBranch |-> prev,
     currentBranch |-> prev, message |-> msg, stashed |-> st, stashConflict |-> conflict]

SuccessResponse(prev, cur, msg, st, conflict) ==
    [status |-> 200, success |-> TRUE, error |-> <<>>, previousBranch |-> prev,
     currentBranch |-> cur, message |-> msg, stashed |-> st, stashConflict |-> conflict]

FailureResponse(code, error) ==
    [status |-> code, success |-> FALSE, error |-> error, previousBranch |-> <<>>,
     currentBranch |-> <<>>, message |-> "", stashed |-> FALSE, stashConflict |-> FALSE]

\* the entry a command put on or took off the stash stack, if any
Moved(out) ==
    IF Len(out.shelf) > Len(shelf) THEN <<Head(out.shelf)>>
    ELSE IF Len(out.shelf) < Len(shelf) THEN <<Head(shelf)>>
    ELSE <<>>

\* await execAsync(cmd, { cwd: worktreePath }) completing with outcome `out`
Exec(o, cmd, out) ==
    /\ head' = [head EXCEPT ![Wt(o)] = out.head]
    /\ changes' = [changes EXCEPT ![Wt(o)] = out.changes]
    /\ shelf' = out.shelf
    /\ calls' = [calls EXCEPT ![o] = Append(@, [cmd |-> cmd, ok |-> out.ok,
                                                 stdout |-> out.stdout, stderr |-> out.stderr,
                                                 entry |-> Moved(out)])]

\* the handler returning with nothing sent
RespondNothing(o, r) ==
    /\ resp' = resp
    /\ pc' = [pc EXCEPT ![o] = "done"]
    /\ post' = [post EXCEPT ![o] = NoSnap]

\* res.json(...) / res.status(...).json(...), then the handler returns
Respond(o, r) ==
    /\ resp' = [resp EXCEPT ![o] = Append(@, r)]
    /\ pc' = [pc EXCEPT ![o] = "done"]
    /\ post' = [post EXCEPT ![o] =
                   IF Wt(o) \in WorktreePaths
                   THEN [head |-> head'[Wt(o)], changes |-> changes'[Wt(o)], shelf |-> shelf']
                   ELSE NoSnap]

\* the handler parks on its next await
Await(o, label) ==
    /\ pc' = [pc EXCEPT ![o] = label]
    /\ UNCHANGED <<resp, post>>

\* catch (error) of line 146
OuterCatch(o, e) == Respond(o, FailureResponse(500, getErrorMessage(e)))

\* the raw output of line 38 compared, the trim of line 42 forgotten
SameBranchUntrimmed(prev, branchName) == prev \o <<"\n">> = branchName

\* lines 44-55
SameBranch(prev, branchName) == prev = branchName

\* the catch of line 62 swallowing the failure instead of responding
BranchMissingIgnored(out) == FALSE

\* lines 58-68: the catch around the existence check
BranchMissing(out) == ~out.ok

\* the checkout issued without the stash push of lines 80-85
AfterStatusUnprotected(dirty) == "checkout"

\* lines 76-85: the next call after the status query
AfterStatus(dirty) == IF dirty THEN "stashPush" ELSE "checkout"

\* line 102
ErrorMsg(err) ==
    IF err.stderr # <<>> THEN err.stderr
    ELSE IF err.message # <<>> THEN err.message
    ELSE <<>>

\* only the upper-case marker looked for
IsConflictUpperOnly(errorMsg) == Includes(errorMsg, <<"CONFLICT">>)

\* line 104
IsConflict(errorMsg) ==
    Includes(errorMsg, <<"CONFLICT">>) \/ Includes(errorMsg, <<"conflict">>)

\* the catch block rethrowing without the restore of lines 137-143
RestoresOnFailureNever(st) == FALSE

\* lines 137-143: does the catch of a failed try block attempt a restore
RestoresOnFailure(st) == st

\* the error of the recovery restore surfacing instead of being ignored
RethrownLatest(caught, recoveryError) ==
    IF recoveryError.cmd = "" THEN caught ELSE recoveryError

\* line 144
Rethrown(caught, recoveryError) == caught

\* the request arrives: lines 16-35, then the call of line 38 is issued
SwitchBranch(o, worktreePath, branchName) ==
    /\ pc[o] = "idle"
    /\ req' = [req EXCEPT ![o] = [worktreePath |-> worktreePath, branchName |-> branchName]]
    /\ pre' = [pre EXCEPT ![o] =
                  IF worktreePath \in WorktreePaths
                  THEN [head |-> head[worktreePath], changes |-> changes[worktreePath],
                        shelf |-> shelf]
                  ELSE NoSnap]
    /\ overlap' = (overlap \/ \E p \in Ops \ {o} : pc[p] \notin {"idle", "done"})
    /\ UNCHANGED <<gitVars, previousBranch, hasChanges, stashed, checkoutError, calls, listVars, branchVars, securityVars>>
    /\ IF worktreePath = <<>>
       THEN /\ resp' = [resp EXCEPT ![o] =
                           Append(@, FailureResponse(400, <<"worktreePath required">>))]
            /\ pc' = [pc EXCEPT ![o] = "done"]
            /\ post' = post
       ELSE IF branchName = <<>>
       THEN /\ resp' = [resp EXCEPT ![o] =
                           Append(@, FailureResponse(400, <<"branchName required">>))]
            /\ pc' = [pc EXCEPT ![o] = "done"]
            /\ post' = [post EXCEPT ![o] = pre'[o]]
       ELSE Await(o, "revParseHead")

\* lines 38-55: git rev-parse --abbrev-ref HEAD
RevParseHead(o) ==
    /\ pc[o] = "revParseHead"
    /\ \E out \in GitRevParseHead(Wt(o)) :
          /\ Exec(o, "git rev-parse --abbrev-ref HEAD", out)
          /\ UNCHANGED <<req, pre, overlap, hasChanges, stashed, checkoutError, listVars, branchVars, securityVars>>
          /\ IF ~out.ok
             THEN /\ OuterCatch(o, ExecError("git rev-parse --abbrev-ref HEAD", out))
                  /\ UNCHANGED previousBranch
             ELSE /\ previousBranch' = [previousBranch EXCEPT ![o] = Trim(out.stdout)]
                  /\ IF SameBranch(Trim(out.stdout), req[o].branchName)
                     THEN Respond(o, SuccessResponse(Trim(out.stdout), req[o].branchName,
                                                     "Already on branch", FALSE, FALSE))
                     ELSE Await(o, "verify")

\* lines 58-68: git rev-parse --verify <branchName>
VerifyBranch(o) ==
    /\ pc[o] = "verify"
    /\ \E out \in GitRevParseVerify(Wt(o), req[o].branchName) :
          /\ Exec(o, "git rev-parse --verify", out)
          /\ UNCHANGED <<req, pre, overlap, previousBranch, hasChanges, stashed, checkoutError, listVars, branchVars, securityVars>>
          /\ IF BranchMissing(out)
             THEN Respond(o, FailureResponse(400, <<"Branch", req[o].branchName, "does not exist">>))
             ELSE Await(o, "status")

\* lines 71-77: git status --porcelain
Status(o) ==
    /\ pc[o] = "status"
    /\ \E out \in GitStatus(Wt(o)) :
          /\ Exec(o, "git status --porcelain", out)
          /\ UNCHANGED <<req, pre, overlap, previousBranch, checkoutError, listVars, branchVars, securityVars>>
          /\ IF ~out.ok
             THEN /\ OuterCatch(o, ExecError("git status --porcelain", out))
                  /\ UNCHANGED <<hasChanges, stashed>>
             ELSE /\ hasChanges' = [hasChanges EXCEPT ![o] = Len(Trim(out.stdout)) > 0]
                  /\ stashed' = [stashed EXCEPT ![o] = FALSE]
                  /\ Await(o, AfterStatus(Len(Trim(out.stdout)) > 0))

\* the failure of the stash push not noticed
PushFailureIgnored(out) == FALSE

\* lines 81-83: the awaited git stash push rejects
PushFailed(out) == ~out.ok

\* lines 80-85: git stash push
StashPush(o) ==
    /\ pc[o] = "stashPush"
    /\ \E out \in GitStashPush(Wt(o), o) :
          /\ Exec(o, "git stash push", out)
          /\ UNCHANGED <<req, pre, overlap, previousBranch, hasChanges, checkoutError, listVars, branchVars, securityVars>>
          /\ IF PushFailed(out)
             THEN /\ OuterCatch(o, ExecError("git stash push", out))
                  /\ UNCHANGED stashed
             ELSE /\ stashed' = [stashed EXCEPT ![o] = TRUE]
                  /\ Await(o, "checkout")

\* lines 87-91, 122-134 and 135-145: git checkout <branchName>
Checkout(o) ==
    /\ pc[o] = "checkout"
    /\ \E out \in GitCheckout(Wt(o), req[o].branchName) :
          /\ Exec(o, "git checkout", out)
          /\ UNCHANGED <<req, pre, overlap, previousBranch, hasChanges, stashed, listVars, branchVars, securityVars>>
          /\ IF out.ok
             THEN /\ UNCHANGED checkoutError
                  /\ IF stashed[o]
                     THEN Await(o, "stashPop")
                     ELSE Respond(o, SuccessResponse(previousBranch[o], req[o].branchName,
                                                     "Switched to branch", stashed[o], FALSE))
             ELSE /\ checkoutError' = [checkoutError EXCEPT ![o] = ExecError("git checkout", out)]
                  /\ IF RestoresOnFailure(stashed[o])
                     THEN Await(o, "recoveryPop")
                     ELSE OuterCatch(o, Rethrown(ExecError("git checkout", out), NoError))

\* lines 94-134: git stash pop after the checkout; a rethrown error (line 118)
\* is caught by the catch of line 135, the try block of line 87 being open
StashPop(o) ==
    /\ pc[o] = "stashPop"
    /\ \E out \in GitStashPop(Wt(o)) :
          /\ Exec(o, "git stash pop", out)
          /\ UNCHANGED <<req, pre, overlap, previousBranch, hasChanges, stashed, listVars, branchVars, securityVars>>
          /\ IF out.ok
             THEN /\ UNCHANGED checkoutError
                  /\ Respond(o, SuccessResponse(previousBranch[o], req[o].branchName,
                                                "Switched to branch (changes stashed and restored)",
                                                stashed[o], FALSE))
             ELSE IF IsConflict(ErrorMsg(ExecError("git stash pop", out)))
             THEN /\ UNCHANGED checkoutError
                  /\ Respond(o, SuccessResponse(previousBranch[o], req[o].branchName,
                                                "Switched but stash had conflicts", TRUE, TRUE))
             ELSE /\ checkoutError' = [checkoutError EXCEPT ![o] = ExecError("git stash pop", out)]
                  /\ IF RestoresOnFailure(stashed[o])
                     THEN Await(o, "recoveryPop")
                     ELSE OuterCatch(o, Rethrown(ExecError("git stash pop", out), NoError))

\* lines 137-148: git stash pop in the catch block, its own error ignored
RecoveryStashPop(o) ==
    /\ pc[o] = "recoveryPop"
    /\ \E out \in GitStashPop(Wt(o)) :
          /\ Exec(o, "git stash pop", out)
          /\ UNCHANGED <<req, pre, overlap, previousBranch, hasChanges, stashed, checkoutError, listVars, branchVars, securityVars>>
          /\ OuterCatch(o, Rethrown(checkoutError[o],
                                    IF out.ok THEN NoError ELSE ExecError("git stash pop", out)))

----------------------------------------------------------------------------
(* POST /list *)

MaxRecords == 3

\* a value that may be undefined: <<>> or <<v>>
Undefined == <<>>
Defined(v) == <<v>>

\* truthiness of an optional string: undefined and "" are falsy
Truthy(m) == m # Undefined /\ m[1] # <<>>

\* a record on a branch, on a detached HEAD, of a bare repository, and a
\* record with no worktree line (the tool prints none; it is drawn so that
\* the parser meets a record lacking its path)
RecordKinds == {"branch", "detached", "bare", "nopath"}

RecordPath(i) == <<"/wt", ToString(i)>>
RecordBranch(i) == <<"b", ToString(i)>>

\* one record of `git worktree list --porcelain`, blank line included
RecordText(kind, i) ==
    (IF kind = "nopath" THEN <<>> ELSE <<"worktree ">> \o RecordPath(i) \o <<"\n">>)
    \o (IF kind = "bare" THEN <<"bare", "\n">>
        ELSE <<"HEAD ", "sha", "\n">>
             \o (IF kind \in {"branch", "nopath"}
                 THEN <<"branch ", "refs/heads/">> \o RecordBranch(i) \o <<"\n">>
                 ELSE <<"detached", "\n">>))
    \o <<"\n">>

RECURSIVE PorcelainText(_, _)
PorcelainText(kinds, i) ==
    IF i > Len(kinds) THEN <<>> ELSE RecordText(kinds[i], i) \o PorcelainText(kinds, i + 1)

\* the tool lists the primary worktree first, and only that one can be bare
KindSeqs ==
    { ks \in UNION { [1 .. n -> RecordKinds] : n \in 1 .. MaxRecords } :
         /\ ks[1] # "nopath"
         /\ \A i \in 2 .. Len(ks) : ks[i] # "bare" }

\* the outputs of the enumeration call the model draws from
PorcelainOutputs == { PorcelainText(ks, 1) : ks \in KindSeqs }

NoCurrent == [path |-> Undefined, branch |-> Undefined]

WorktreeInfo(path, branch, isMain) ==
    [path |-> path, branch |-> branch, isMain |-> isMain,
     hasChanges |-> Undefined, changedFilesCount |-> Undefined]

\* the record's fields surviving the blank line that ends it
CurrentKept(current) == current

\* line 62: current = {}
CurrentReset(current) == NoCurrent

\* line 58: the isMain of a pushed entry
IsMainOf(isFirst) == isFirst

RECURSIVE ParseLines(_, _, _, _)
\* lines 47-64: the for-of loop over the lines, as a fold
ParseLines(lines, current, isFirst, acc) ==
    IF lines = <<>> THEN acc
    ELSE LET line == Head(lines) IN
         IF StartsWith(line, <<"worktree ">>)
         THEN ParseLines(Tail(lines), [current EXCEPT !.path = Defined(Slice(line, 1))],
                         isFirst, acc)
         ELSE IF StartsWith(line, <<"branch ">>)
         THEN ParseLines(Tail(lines),
                         [current EXCEPT !.branch =
                              Defined(ReplaceFirst(Slice(line, 1), <<"refs/heads/">>))],
                         isFirst, acc)
         ELSE IF line = <<>>
         THEN IF Truthy(current.path) /\ Truthy(current.branch)
              THEN ParseLines(Tail(lines), CurrentReset(current), FALSE,
                              Append(acc, WorktreeInfo(current.path[1], current.branch[1],
                                                       IsMainOf(isFirst))))
              ELSE ParseLines(Tail(lines), CurrentReset(current), isFirst, acc)
         ELSE ParseLines(Tail(lines), current, isFirst, acc)

\* lines 42-64
ParseWorktrees(stdout) == ParseLines(Split(stdout, "\n"), NoCurrent, TRUE, <<>>)

NonBlank(line) == Trim(line) # <<>>

\* the lines of the output, the filter of line 74 left out
ChangedFilesUnfiltered(statusOutput) == Split(Trim(statusOutput), "\n")

\* line 74
ChangedFiles(statusOutput) == SelectSeq(Split(Trim(statusOutput), "\n"), NonBlank)

\* the catch of line 77 leaving the entry as it was
StatusFailedUnset(worktree) == worktree

\* lines 77-81: the entry after a failed status query
StatusFailed(worktree) ==
    [worktree EXCEPT !.hasChanges = Defined(FALSE), !.changedFilesCount = Defined(0)]

\* lines 74-76: the entry after a status query that printed statusOutput
StatusKnown(worktree, statusOutput) ==
    [worktree EXCEPT !.hasChanges = Defined(Len(ChangedFiles(statusOutput)) > 0),
                     !.changedFilesCount = Defined(Len(ChangedFiles(statusOutput)))]

\* the status outputs the model draws from: zero, one or two changed entries
ListStatusOutputs == { StatusLines(ChangeOrder, cs) : cs \in SUBSET {"t1", "u1"} }

NoListRequest == [projectPath |-> <<>>, includeDetails |-> FALSE]

ListSuccess(wts) == [status |-> 200, success |-> TRUE, error |-> <<>>, worktrees |-> wts]

ListFailure(code, error) == [status |-> code, success |-> FALSE, error |-> error, worktrees |-> <<>>]

ListRespond(r) ==
    /\ lresp' = Append(lresp, r)
    /\ lpc' = "done"

\* any projectPath let through
ProjectPathAccepted(projectPath) == FALSE

\* line 28: if (!projectPath)
ProjectPathMissing(projectPath) == projectPath = <<>>

\* the request arrives: lines 23-31, then isGitRepo is called
List(projectPath, includeDetails) ==
    /\ lpc = "idle"
    /\ lreq' = [projectPath |-> projectPath, includeDetails |-> includeDetails]
    /\ UNCHANGED <<gitVars, switchVars, branchVars, securityVars, lstdout, worktrees, lidx, lcalls>>
    /\ IF ProjectPathMissing(projectPath)
       THEN ListRespond(ListFailure(400, <<"projectPath required">>))
       ELSE lpc' = "isGitRepo" /\ UNCHANGED lresp

\* the answer of isGitRepo not looked at
NotARepoIgnored(answer) == FALSE

\* line 33: if (!(await isGitRepo(projectPath)))
NotARepo(answer) == ~answer

\* lines 33-36: isGitRepo of ../common.js answers
IsGitRepo(answer) ==
    /\ lpc = "isGitRepo"
    /\ lcalls' = Append(lcalls, [cmd |-> "isGitRepo", cwd |-> lreq.projectPath,
                                 ok |-> answer, stdout |-> <<>>])
    /\ UNCHANGED <<gitVars, switchVars, branchVars, securityVars, lreq, lstdout, worktrees, lidx>>
    /\ IF NotARepo(answer)
       THEN ListRespond(ListSuccess(<<>>))
       ELSE lpc' = "worktreeList" /\ UNCHANGED lresp

\* lines 38-67 and 85-89: git worktree list --porcelain, the parse, and
\* either the response or the first status query
WorktreeList(ok, stdout) ==
    /\ lpc = "worktreeList"
    /\ lcalls' = Append(lcalls, [cmd |-> "git worktree list --porcelain",
                                 cwd |-> lreq.projectPath, ok |-> ok, stdout |-> stdout])
    /\ lstdout' = stdout
    /\ UNCHANGED <<gitVars, switchVars, branchVars, securityVars, lreq>>
    /\ IF ~ok
       THEN /\ ListRespond(ListFailure(500, getErrorMessage(
                    ExecError("git worktree list --porcelain", [stderr |-> ToolFailure]))))
            /\ UNCHANGED <<worktrees, lidx>>
       ELSE /\ worktrees' = ParseWorktrees(stdout)
            /\ IF lreq.includeDetails /\ ParseWorktrees(stdout) # <<>>
               THEN lpc' = "status" /\ lidx' = 1 /\ UNCHANGED lresp
               ELSE ListRespond(ListSuccess(ParseWorktrees(stdout))) /\ UNCHANGED lidx

\* lines 68-85: one turn of the loop: git status --porcelain in worktree.path
ListStatus(ok, statusOutput) ==
    /\ lpc = "status"
    /\ lcalls' = Append(lcalls, [cmd |-> "git status --porcelain",
                                 cwd |-> worktrees[lidx].path, ok |-> ok,
                                 stdout |-> statusOutput])
    /\ worktrees' = [worktrees EXCEPT ![lidx] =
                        IF ok THEN StatusKnown(@, statusOutput) ELSE StatusFailed(@)]
    /\ UNCHANGED <<gitVars, switchVars, branchVars, securityVars, lreq, lstdout>>
    /\ IF lidx < Len(worktrees)
       THEN lidx' = lidx + 1 /\ UNCHANGED <<lpc, lresp>>
       ELSE ListRespond(ListSuccess(worktrees')) /\ UNCHANGED lidx

----------------------------------------------------------------------------
(* POST /list-branches *)

\* what `git branch --format='%(refname:short)'` may print: one line per
\* local branch, each branch once, and a "(HEAD detached at ...)" line first
\* when no branch is checked out
BranchLines(names, detached) ==
    (IF detached THEN <<"(HEAD detached at sha)", "\n">> ELSE <<>>)
    \o (IF <<"dev">> \in names THEN <<"dev", "\n">> ELSE <<>>)
    \o (IF <<"feat">> \in names THEN <<"feat", "\n">> ELSE <<>>)
    \o (IF <<"main">> \in names THEN <<"main", "\n">> ELSE <<>>)

BranchListOutputs ==
    { BranchLines(names, d) : names \in SUBSET Branches, d \in BOOLEAN }

\* what `git rev-parse --abbrev-ref HEAD` may print: the branch checked out,
\* or HEAD when none is
CurrentBranchOutputs == { b \o <<"\n">> : b \in Branches \cup {<<"HEAD">>} }

\* the comparison of line 52 made with the raw output of line 34
IsCurrentUntrimmed(name, current) == Trim(name) = current \o <<"\n">>

\* line 52
IsCurrent(name, current) == Trim(name) = current

\* lines 50-54
BranchInfo(name, current) ==
    [name |-> Trim(name), isCurrent |-> IsCurrent(name, current), isRemote |-> FALSE]

RECURSIVE MapBranchInfo(_, _)
\* Array.prototype.map of line 50
MapBranchInfo(names, current) ==
    IF names = <<>> THEN <<>>
    ELSE <<BranchInfo(Head(names), current)>> \o MapBranchInfo(Tail(names), current)

\* lines 46-54
ParseBranches(branchesOutput, current) ==
    MapBranchInfo(SelectSeq(Split(Trim(branchesOutput), "\n"), NonBlank), current)

NoBranchRequest == [worktreePath |-> <<>>]

BranchesSuccess(current, bs) ==
    [status |-> 200, success |-> TRUE, error |-> <<>>, currentBranch |-> current, branches |-> bs]

BranchesFailure(code, error) ==
    [status |-> code, success |-> FALSE, error |-> error, currentBranch |-> <<>>, branches |-> <<>>]

BranchesRespond(r) ==
    /\ bresp' = Append(bresp, r)
    /\ bpc' = "done"

\* the request arrives: lines 21-31, then the call of line 34 is issued
ListBranches(worktreePath) ==
    /\ bpc = "idle"
    /\ breq' = [worktreePath |-> worktreePath]
    /\ UNCHANGED <<gitVars, switchVars, listVars, securityVars, currentBranch, bcalls>>
    /\ IF worktreePath = <<>>
       THEN BranchesRespond(BranchesFailure(400, <<"worktreePath required">>))
       ELSE bpc' = "revParseHead" /\ UNCHANGED bresp

\* lines 34-38: git rev-parse --abbrev-ref HEAD
BranchesRevParseHead(ok, stdout) ==
    /\ bpc = "revParseHead"
    /\ bcalls' = Append(bcalls, [cmd |-> "git rev-parse --abbrev-ref HEAD",
                                 cwd |-> breq.worktreePath, ok |-> ok, stdout |-> stdout])
    /\ UNCHANGED <<gitVars, switchVars, listVars, securityVars, breq>>
    /\ IF ~ok
       THEN /\ BranchesRespond(BranchesFailure(500, getErrorMessage(
                    ExecError("git rev-parse --abbrev-ref HEAD", [stderr |-> ToolFailure]))))
            /\ UNCHANGED currentBranch
       ELSE /\ currentBranch' = Trim(stdout)
            /\ bpc' = "branch"
            /\ UNCHANGED bresp

\* lines 41-66: git branch --format='%(refname:short)'
BranchesList(ok, stdout) ==
    /\ bpc = "branch"
    /\ bcalls' = Append(bcalls, [cmd |-> "git branch --format", cwd |-> breq.worktreePath,
                                 ok |-> ok, stdout |-> stdout])
    /\ UNCHANGED <<gitVars, switchVars, listVars, securityVars, breq, currentBranch>>
    /\ IF ~ok
       THEN BranchesRespond(BranchesFailure(500, getErrorMessage(
                ExecError("git branch --format", [stderr |-> ToolFailure]))))
       ELSE BranchesRespond(BranchesSuccess(currentBranch, ParseBranches(stdout, currentBranch)))

----------------------------------------------------------------------------
(* libs/platform/src/security.ts *)

\* paths are sequences of segments and separators
Cwd == <<"/", "cwd">>

\* the file paths and environment values the model draws from
PathInputs == { <<"/", "srv">>, <<"/", "srv", "/">>, <<"data">>, <<"/", "tmp">> }
DirsInputs == { <<>>, <<"/", "srv">>, <<"/", "srv", ",", " ", "data", " ">>, <<",", " ", ",", "/", "ws">> }
DataDirInputs == { <<>>, <<"data">> }
WorkspaceDirInputs == { <<>>, <<"/", "ws", "/">> }

RECURSIVE DropTrailingSep(_)
DropTrailingSep(p) ==
    IF Len(p) > 1 /\ p[Len(p)] = "/" THEN DropTrailingSep(SubSeq(p, 1, Len(p) - 1)) ELSE p

\* path.resolve: the absolute path of its argument, no trailing separator
resolve(p) ==
    DropTrailingSep(IF p # <<>> /\ Head(p) = "/" THEN p
                    ELSE IF p = <<>> THEN Cwd ELSE Cwd \o <<"/">> \o p)

\* Set.prototype.add
SetAdd(set, v) == IF \E i \in 1 .. Len(set) : set[i] = v THEN set ELSE Append(set, v)

RECURSIVE AddDirs(_, _)
\* lines 45-50: the loop over dirs.split(",")
AddDirs(set, dirs) ==
    IF dirs = <<>> THEN set
    ELSE LET trimmed == Trim(Head(dirs)) IN
         AddDirs(IF trimmed # <<>> THEN SetAdd(set, resolve(trimmed)) ELSE set, Tail(dirs))

\* the list consulted, as a strict validation would
isPathAllowedEnforced(filePath) ==
    \E i \in 1 .. Len(allowedPaths) : allowedPaths[i] = resolve(filePath)

\* lines 74-76
isPathAllowed(filePath) == TRUE

\* lines 81-83
validatePath(filePath) == resolve(filePath)

\* lines 88-90: Array.from(allowedPaths)
getAllowedPaths == allowedPaths

\* lines 42-62, the environment being dirs, dataDir and workspaceDir
InitAllowedPaths(dirs, dataDir, workspaceDir) ==
    /\ allowedPaths' =
          LET a == IF dirs # <<>> THEN AddDirs(allowedPaths, Split(dirs, ",")) ELSE allowedPaths
              b == IF dataDir # <<>> THEN SetAdd(a, resolve(dataDir)) ELSE a
          IN  IF workspaceDir # <<>> THEN SetAdd(b, resolve(workspaceDir)) ELSE b
    /\ UNCHANGED <<gitVars, switchVars, listVars, branchVars, checked, validated, listed>>

\* lines 67-69
AddAllowedPath(filePath) ==
    /\ allowedPaths' = SetAdd(allowedPaths, resolve(filePath))
    /\ UNCHANGED <<gitVars, switchVars, listVars, branchVars, checked, validated, listed>>

IsPathAllowed(filePath) ==
    /\ checked' = <<[path |-> filePath, allowed |-> isPathAllowed(filePath)]>>
    /\ UNCHANGED <<gitVars, switchVars, listVars, branchVars, allowedPaths, validated, listed>>

ValidatePath(filePath) ==
    /\ validated' = <<validatePath(filePath)>>
    /\ UNCHANGED <<gitVars, switchVars, listVars, branchVars, allowedPaths, checked, listed>>

GetAllowedPaths ==
    /\ listed' = getAllowedPaths
    /\ UNCHANGED <<gitVars, switchVars, listVars, branchVars, allowedPaths, checked, validated>>

----------------------------------------------------------------------------
(* Specifications *)

InitGit ==
    /\ head = [w \in WorktreePaths |-> IF w = <<"/w1">> THEN <<"main">> ELSE <<"dev">>]
    /\ changes \in { c \in [WorktreePaths -> SUBSET (TrackedEdits \cup UntrackedFiles)] :
                        \A w \in WorktreePaths : c[w] \subseteq OwnChanges(w) }
    /\ shelf \in { <<>>, <<UserEntry>> }

InitSwitch ==
    /\ pc = [o \in Ops |-> "idle"]
    /\ req = [o \in Ops |-> NoRequest]
    /\ previousBranch = [o \in Ops |-> <<>>]
    /\ hasChanges = [o \in Ops |-> FALSE]
    /\ stashed = [o \in Ops |-> FALSE]
    /\ checkoutError = [o \in Ops |-> NoError]
    /\ resp = [o \in Ops |-> <<>>]
    /\ calls = [o \in Ops |-> <<>>]
    /\ pre = [o \in Ops |-> NoSnap]
    /\ post = [o \in Ops |-> NoSnap]
    /\ overlap = FALSE

InitList ==
    /\ lpc = "idle"
    /\ lreq = NoListRequest
    /\ lstdout = <<>>
    /\ worktrees = <<>>
    /\ lidx = 0
    /\ lresp = <<>>
    /\ lcalls = <<>>

InitBranches ==
    /\ bpc = "idle"
    /\ breq = NoBranchRequest
    /\ currentBranch = <<>>
    /\ bresp = <<>>
    /\ bcalls = <<>>

InitSecurity ==
    /\ allowedPaths = <<>>
    /\ checked = <<>>
    /\ validated = <<>>
    /\ listed = <<>>

Init == InitGit /\ InitSwitch /\ InitList /\ InitBranches /\ InitSecurity

\* no switch-branch request is in flight
Quiescent == \A p \in Ops : pc[p] \in {"idle", "done"}

Step(o) ==
    \/ RevParseHead(o)
    \/ VerifyBranch(o)
    \/ Status(o)
    \/ StashPush(o)
    \/ Checkout(o)
    \/ StashPop(o)
    \/ RecoveryStashPop(o)

\* switch-branch requests served one at a time
Next ==
    \E o \in Ops :
        \/ \E w \in WorktreePaths \cup {<<>>}, b \in TargetNames :
              Quiescent /\ SwitchBranch(o, w, b)
        \/ Step(o)

Spec == Init /\ [][Next]_vars

\* switch-branch requests arriving while another is in flight
NextConc ==
    \E o \in Ops :
        \/ \E w \in WorktreePaths \cup {<<>>}, b \in TargetNames : SwitchBranch(o, w, b)
        \/ Step(o)

SpecConc == Init /\ [][NextConc]_vars

\* an awaited call of the list handler completes
ListStep ==
    \/ \E a \in BOOLEAN : IsGitRepo(a)
    \/ \E out \in PorcelainOutputs : WorktreeList(TRUE, out)
    \/ WorktreeList(FALSE, <<>>)
    \/ \E out \in ListStatusOutputs : ListStatus(TRUE, out)
    \/ ListStatus(FALSE, <<>>)

ListRequest == \E p \in {<<>>, <<"/w1">>}, d \in BOOLEAN : List(p, d)

\* one list request
NextList == ListRequest \/ ListStep

SpecList == Init /\ [][NextList]_vars

\* an awaited call of the list-branches handler completes
BranchesStep ==
    \/ \E out \in CurrentBranchOutputs : BranchesRevParseHead(TRUE, out)
    \/ BranchesRevParseHead(FALSE, <<>>)
    \/ \E out \in BranchListOutputs : BranchesList(TRUE, out)
    \/ BranchesList(FALSE, <<>>)

BranchesRequest == \E w \in WorktreePaths \cup {<<>>} : ListBranches(w)

\* one list-branches request
NextBranches == BranchesRequest \/ BranchesStep

SpecBranches == Init /\ [][NextBranches]_vars

\* no request of any operation has arrived yet
AllIdle == (\A p \in Ops : pc[p] = "idle") /\ lpc = "idle" /\ bpc = "idle"

\* one request, to any of the three operations
NextAny ==
    \/ \E o \in Ops :
          \/ \E w \in WorktreePaths \cup {<<>>}, b \in TargetNames :
                AllIdle /\ SwitchBranch(o, w, b)
          \/ Step(o)
    \/ (AllIdle /\ ListRequest)
    \/ ListStep
    \/ (AllIdle /\ BranchesRequest)
    \/ BranchesStep

SpecAny == Init /\ [][NextAny]_vars

\* the exported functions of security.ts called in any order
NextSecurity ==
    \/ \E dirs \in DirsInputs, dataDir \in DataDirInputs, workspaceDir \in WorkspaceDirInputs :
          InitAllowedPaths(dirs, dataDir, workspaceDir)
    \/ \E filePath \in PathInputs : AddAllowedPath(filePath)
    \/ \E filePath \in PathInputs : IsPathAllowed(filePath)
    \/ \E filePath \in PathInputs : ValidatePath(filePath)
    \/ GetAllowedPaths

SpecSecurity == Init /\ [][NextSecurity]_vars

----------------------------------------------------------------------------
(* Properties *)

Done(o) == pc[o] = "done"

Served(o) == Done(o) /\ Wt(o) \in WorktreePaths /\ req[o].branchName # <<>>

Reply(o) == resp[o][1]

CallsOf(o, cmd) == { i \in 1 .. Len(calls[o]) : calls[o][i].cmd = cmd }

Mutating == {"git stash push", "git checkout", "git stash pop"}

\* output with at least one character that is not white space
NonBlankOutput(text) == \E i \in 1 .. Len(text) : text[i] \notin WhiteSpace

\* the status query of `o` answered, and reported uncommitted changes
DirtyAt(o, i) ==
    /\ calls[o][i].cmd = "git status --porcelain"
    /\ calls[o][i].ok
    /\ NonBlankOutput(calls[o][i].stdout)

\* C1: in an execution whose status query printed non-blank output, every
\* checkout is preceded, after that status query, by a stash push that
\* exited 0; no checkout is issued otherwise.
C1_ProtectBeforeSwitch ==
    \A o \in Ops : \A i \in CallsOf(o, "git checkout") :
        (\E j \in 1 .. (i - 1) : DirtyAt(o, j))
            => \E j \in 1 .. (i - 1), k \in CallsOf(o, "git stash push") :
                  DirtyAt(o, j) /\ j < k /\ k < i /\ calls[o][k].ok

C1_Witness ==
    \E o \in Ops : \E i \in CallsOf(o, "git checkout") :
        /\ \E j \in 1 .. (i - 1) : DirtyAt(o, j)
        /\ \E k \in CallsOf(o, "git stash push") : k < i /\ calls[o][k].ok

\* the checkout of `o` failed after its stash push had succeeded
CheckoutFailedAfterStash(o, i) ==
    /\ i \in CallsOf(o, "git checkout")
    /\ ~calls[o][i].ok
    /\ \E k \in CallsOf(o, "git stash push") : k < i /\ calls[o][k].ok

\* C2: when the stash push succeeded and the checkout then failed, by the
\* time a response exists a stash pop has been issued after the checkout,
\* and the one response is the 500 failure carrying the checkout's own
\* error message, whatever the stash pop did.
C2_RecoveryOnCheckoutFailure ==
    \A o \in Ops : \A i \in 1 .. Len(calls[o]) :
        (CheckoutFailedAfterStash(o, i) /\ resp[o] # <<>>)
            => /\ \E k \in CallsOf(o, "git stash pop") : k > i
               /\ resp[o] = <<FailureResponse(500, getErrorMessage(
                                  ExecError("git checkout", calls[o][i])))>>

C2_Witness ==
    \E o \in Ops : \E i \in 1 .. Len(calls[o]) :
        /\ CheckoutFailedAfterStash(o, i)
        /\ resp[o] # <<>>
        /\ \E k \in CallsOf(o, "git stash pop") : k > i /\ ~calls[o][k].ok

ConflictMarkers == {"CONFLICT", "conflict"}

HasConflictMarker(text) == \E i \in 1 .. Len(text) : text[i] \in ConflictMarkers

\* the stash pop that follows a successful checkout of `o` failed
RestoreFailedAt(o, i) ==
    /\ i \in CallsOf(o, "git stash pop")
    /\ ~calls[o][i].ok
    /\ i > 1
    /\ calls[o][i - 1].cmd = "git checkout"
    /\ calls[o][i - 1].ok

\* C3: once the operation has ended, a failed stash pop after a successful
\* checkout whose error text carries a conflict marker gave the success
\* result {currentBranch: target, stashed: true, stashConflict: true}; one
\* whose error text carries none gave a failure result.
C3_ConflictIsNotFailure ==
    \A o \in Ops : \A i \in 1 .. Len(calls[o]) :
        (Done(o) /\ RestoreFailedAt(o, i))
            => /\ Len(resp[o]) = 1
               /\ IF HasConflictMarker(calls[o][i].stderr)
                  THEN /\ Reply(o).success
                       /\ Reply(o).stashed
                       /\ Reply(o).stashConflict
                       /\ Reply(o).currentBranch = req[o].branchName
                  ELSE ~Reply(o).success

C3_Witness ==
    \E o \in Ops : \E i \in 1 .. Len(calls[o]) :
        /\ Done(o)
        /\ RestoreFailedAt(o, i)
        /\ calls[o][i].stderr = <<"error:", "conflict", "\n">>
        /\ Reply(o).stashConflict

\* C4: a terminated operation either reports success with the worktree on
\* the target branch and the caller's uncommitted changes in the working
\* tree, or reports failure with the worktree still on the previous branch;
\* success with stashConflict is the one exception.
C4_NoPartialCommit ==
    \A o \in Ops :
        Served(o) =>
            /\ (Reply(o).success /\ ~Reply(o).stashConflict)
                  => /\ post[o].head = req[o].branchName
                     /\ pre[o].changes \subseteq post[o].changes
            /\ ~Reply(o).success => post[o].head = pre[o].head

\* C5: when the branch the first query resolves is the target, that query is
\* the only call of the execution, and the response is the success result
\* {previousBranch: target, currentBranch: target, stashed: false}.
C5_Idempotence ==
    \A o \in Ops :
        (/\ calls[o] # <<>>
         /\ calls[o][1].ok
         /\ calls[o][1].stdout = req[o].branchName \o <<"\n">>)
            => /\ Len(calls[o]) = 1
               /\ Done(o)
               /\ Len(resp[o]) = 1
               /\ Reply(o).success
               /\ ~Reply(o).stashed
               /\ Reply(o).previousBranch = req[o].branchName
               /\ Reply(o).currentBranch = req[o].branchName

C5_Witness ==
    \E o \in Ops :
        /\ calls[o] # <<>>
        /\ calls[o][1].ok
        /\ calls[o][1].stdout = req[o].branchName \o <<"\n">>
        /\ Done(o)

VerifyFailed(o) == \E i \in CallsOf(o, "git rev-parse --verify") : ~calls[o][i].ok

\* C6: when the existence check fails, the execution has ended with the one
\* response a 400 failure, it issued no stash push, checkout or stash pop,
\* and the worktree's branch, changes and the stash stack are as they were
\* when the request arrived.
C6_NonexistentTarget ==
    \A o \in Ops :
        VerifyFailed(o)
            => /\ Done(o)
               /\ Len(resp[o]) = 1
               /\ ~Reply(o).success
               /\ Reply(o).status = 400
               /\ \A i \in 1 .. Len(calls[o]) : calls[o][i].cmd \notin Mutating
               /\ post[o] = pre[o]

C6_Witness ==
    \E o \in Ops : VerifyFailed(o) /\ req[o].branchName = <<"ghost">> /\ Done(o)

\* the stash push of `o` put an entry on the stack
Created(o) == \E i \in CallsOf(o, "git stash push") : calls[o][i].entry # <<>>

\* that entry is on the stack as the operation ends
OnShelfAtEnd(o) == \E i \in 1 .. Len(post[o].shelf) : post[o].shelf[i].owner = o

CheckoutFailed(o) == \E i \in CallsOf(o, "git checkout") : ~calls[o][i].ok

\* C7 as claimed: the entry an operation created is on the stack at its end
\* only if the checkout failed and the recovery stash pop failed too.
C7_ShelfEntryLifecycle ==
    \A o \in Ops :
        (Done(o) /\ Created(o) /\ OnShelfAtEnd(o))
            => /\ CheckoutFailed(o)
               /\ \E k \in CallsOf(o, "git stash pop") : ~calls[o][k].ok

\* C7 amended: the entry an operation created is on the stack at its end
\* exactly when the operation issued a stash pop and none of its stash pops
\* exited 0 (a failed recovery after a failed checkout, a conflicting
\* restore, or a failed restore followed by a failed recovery); it is gone
\* exactly when one of its stash pops exited 0.
C7_ShelfEntryLifecycleAmended ==
    \A o \in Ops :
        (Done(o) /\ Created(o))
            => (OnShelfAtEnd(o)
                  <=> /\ CallsOf(o, "git stash pop") # {}
                      /\ \A k \in CallsOf(o, "git stash pop") : ~calls[o][k].ok)

C7_Witness ==
    \E o \in Ops :
        /\ Done(o)
        /\ Created(o)
        /\ OnShelfAtEnd(o)
        /\ ~CheckoutFailed(o)
        /\ Cardinality(CallsOf(o, "git stash pop")) = 2

\* C8: of two operations on different worktree paths, each that shelved an
\* entry gets that entry back from its own stash pop, as it would alone.
C8_NoInterference ==
    \A o \in Ops, p \in Ops :
        (/\ o # p
         /\ Wt(o) \in WorktreePaths
         /\ Wt(p) \in WorktreePaths
         /\ Wt(o) # Wt(p)
         /\ Created(o))
            => \A k \in CallsOf(o, "git stash pop") :
                  calls[o][k].ok => calls[o][k].entry[1].owner = o

\* the enumeration call of the list request exited 0
Enumerated ==
    \E i \in 1 .. Len(lcalls) :
        lcalls[i].cmd = "git worktree list --porcelain" /\ lcalls[i].ok

\* the path of the first record of the enumeration output: what follows
\* "worktree " on its first line
FirstRecordPath(stdout) ==
    LET eol == CHOOSE i \in 1 .. Len(stdout) :
                   stdout[i] = "\n" /\ \A j \in 1 .. (i - 1) : stdout[j] # "\n"
    IN  SubSeq(stdout, 2, eol - 1)

MainEntries(ws) == { i \in 1 .. Len(ws) : ws[i].isMain }

\* C9: the listing of an enumeration output has exactly one entry with
\* isMain = true, and it is the entry of the output's first record.
C9_PrimaryWorktreeUnique ==
    (lpc = "done" /\ Enumerated)
        => /\ Cardinality(MainEntries(lresp[1].worktrees)) = 1
           /\ \A i \in MainEntries(lresp[1].worktrees) :
                 lresp[1].worktrees[i].path = FirstRecordPath(lstdout)

\* the lines of a text that hold a character that is not white space,
\* counted by the first such character of each line
NonBlankLineCount(text) ==
    Cardinality({ i \in 1 .. Len(text) :
                     /\ text[i] \notin WhiteSpace
                     /\ \A j \in 1 .. (i - 1) :
                           (\A k \in j .. (i - 1) : text[k] # "\n")
                               => text[j] \in WhiteSpace })

\* the status query issued for the k-th entry: the calls of a detailed
\* listing are isGitRepo, the enumeration, then one status query per entry
StatusCall(k) == lcalls[k + 2]

\* C10: a detailed listing whose enumeration succeeded ends with one success
\* response holding every parsed worktree in order; an entry whose status
\* query failed has hasChanges = false and changedFilesCount = 0, and every
\* other entry has the count of the non-blank lines of its own status output.
C10_EnrichmentIsolation ==
    (lpc = "done" /\ lreq.includeDetails /\ Enumerated)
        => LET parsed == ParseWorktrees(lstdout)
               ws     == lresp[1].worktrees
           IN  /\ Len(lresp) = 1
               /\ lresp[1].success
               /\ Len(ws) = Len(parsed)
               /\ Len(lcalls) = Len(ws) + 2
               /\ \A k \in 1 .. Len(ws) :
                     /\ ws[k].path = parsed[k].path
                     /\ ws[k].branch = parsed[k].branch
                     /\ ws[k].isMain = parsed[k].isMain
                     /\ StatusCall(k).cmd = "git status --porcelain"
                     /\ StatusCall(k).cwd = ws[k].path
                     /\ IF StatusCall(k).ok
                        THEN /\ ws[k].changedFilesCount =
                                    Defined(NonBlankLineCount(StatusCall(k).stdout))
                             /\ ws[k].hasChanges =
                                    Defined(NonBlankLineCount(StatusCall(k).stdout) > 0)
                        ELSE /\ ws[k].changedFilesCount = Defined(0)
                             /\ ws[k].hasChanges = Defined(FALSE)

C10_Witness ==
    /\ lpc = "done"
    /\ lreq.includeDetails
    /\ Enumerated
    /\ Len(lresp[1].worktrees) >= 2
    /\ ~StatusCall(1).ok
    /\ StatusCall(2).ok
    /\ lresp[1].worktrees[2].changedFilesCount = Defined(2)
    /\ lresp[1].worktrees[1].hasChanges = Defined(FALSE)

\* the value the current-branch query returned: its output line
CurrentBranchReturned ==
    LET out == bcalls[1].stdout IN SubSeq(out, 1, Len(out) - 1)

\* C11: in a branch listing result an entry is current exactly when its name
\* is the value the current-branch query returned, at most one entry is
\* current, and no entry is remote.
C11_CurrentBranchConsistency ==
    (bpc = "done" /\ bresp[1].success)
        => LET bs == bresp[1].branches
           IN  /\ \A i \in 1 .. Len(bs) :
                     /\ bs[i].isCurrent <=> (bs[i].name = CurrentBranchReturned)
                     /\ ~bs[i].isRemote
               /\ Cardinality({ i \in 1 .. Len(bs) : bs[i].isCurrent }) <= 1
               /\ bresp[1].currentBranch = CurrentBranchReturned

C11_Witness ==
    /\ bpc = "done"
    /\ bresp[1].success
    /\ Len(bresp[1].branches) = 3
    /\ bresp[1].branches[2].isCurrent
    /\ ~bresp[1].branches[1].isCurrent

RECURSIVE RecordsOf(_, _)
\* the records of an enumeration output: the runs of lines that a blank line ends
RecordsOf(lines, rec) ==
    IF lines = <<>> THEN <<>>
    ELSE IF Head(lines) = <<>> THEN <<rec>> \o RecordsOf(Tail(lines), <<>>)
    ELSE RecordsOf(Tail(lines), Append(rec, Head(lines)))

\* what follows `key` on the lines of a record that start with it
FieldsOf(rec, key) ==
    { SubSeq(rec[i], 2, Len(rec[i])) : i \in { j \in 1 .. Len(rec) : rec[j][1] = key } }

\* a record with a path line and a branch line
HasBoth(rec) == FieldsOf(rec, "worktree ") # {} /\ FieldsOf(rec, "branch ") # {}

RECURSIVE EntriesOf(_)
\* the path and the branch (its refs/heads/ prefix dropped) of each record
\* that has both, in order
EntriesOf(recs) ==
    IF recs = <<>> THEN <<>>
    ELSE (IF HasBoth(Head(recs))
          THEN <<[path |-> CHOOSE f \in FieldsOf(Head(recs), "worktree ") : TRUE,
                  branch |-> Tail(CHOOSE f \in FieldsOf(Head(recs), "branch ") : TRUE)]>>
          ELSE <<>>)
         \o EntriesOf(Tail(recs))

PathAndBranch(ws) == [i \in 1 .. Len(ws) |-> [path |-> ws[i].path, branch |-> ws[i].branch]]

Structured(r) == r.success \/ r.error # <<>>

\* the awaits of an external call in switch-branch (lines 38, 59, 71, 81,
\* 89, 96 and 139), none of them in a loop
SwitchCallSites ==
    {"revParseHead", "verify", "status", "stashPush", "checkout", "stashPop", "recoveryPop"}

MaxSwitchCalls == Cardinality(SwitchCallSites)

\* C13: every execution of list, list-branches and switch-branch issues a
\* bounded number of external calls, can always go on while a call is
\* awaited, and has sent exactly one response, a structured one, when it
\* ends; none before.
C13_ExactlyOneResponse ==
    /\ \A o \in Ops :
          /\ Len(resp[o]) = (IF pc[o] = "done" THEN 1 ELSE 0)
          /\ pc[o] = "done" => Structured(resp[o][1])
          /\ Len(calls[o]) <= MaxSwitchCalls
          /\ pc[o] \notin {"idle", "done"} => ENABLED Step(o)
    /\ Len(lresp) = (IF lpc = "done" THEN 1 ELSE 0)
    /\ lpc = "done" => Structured(lresp[1])
    /\ Len(lcalls) <= 2 + Len(worktrees)
    /\ lpc \notin {"idle", "done"} => ENABLED ListStep
    /\ Len(bresp) = (IF bpc = "done" THEN 1 ELSE 0)
    /\ bpc = "done" => Structured(bresp[1])
    /\ Len(bcalls) <= 2
    /\ bpc \notin {"idle", "done"} => ENABLED BranchesStep

\* the longest execution of switch-branch has ended with its one response
C13_Witness ==
    \E o \in Ops : pc[o] = "done" /\ Len(calls[o]) = MaxSwitchCalls /\ Len(resp[o]) = 1

\* a validation failure: status 400 and the name of the input
ValidationError(r, what) == ~r.success /\ r.status = 400 /\ r.error = <<what>>

\* C14: a request lacking a required input (projectPath for list,
\* worktreePath for list-branches, worktreePath or branchName for
\* switch-branch) is answered with a validation error, and the operation has
\* issued no external call of any kind.
C14_ValidationBeforeCalls ==
    /\ \A o \in Ops :
          (pc[o] # "idle" /\ (req[o].worktreePath = <<>> \/ req[o].branchName = <<>>))
              => /\ pc[o] = "done"
                 /\ calls[o] = <<>>
                 /\ \/ ValidationError(resp[o][1], "worktreePath required")
                    \/ ValidationError(resp[o][1], "branchName required")
    /\ (lpc # "idle" /\ lreq.projectPath = <<>>)
          => lpc = "done" /\ lcalls = <<>> /\ ValidationError(lresp[1], "projectPath required")
    /\ (bpc # "idle" /\ breq.worktreePath = <<>>)
          => bpc = "done" /\ bcalls = <<>> /\ ValidationError(bresp[1], "worktreePath required")

\* a switch-branch request with its worktreePath but no branchName was refused
C14_Witness ==
    \E o \in Ops :
        /\ pc[o] = "done"
        /\ req[o].worktreePath \in WorktreePaths
        /\ req[o].branchName = <<>>
        /\ calls[o] = <<>>
        /\ ValidationError(resp[o][1], "branchName required")

ListCalls(cmd) == { i \in 1 .. Len(lcalls) : lcalls[i].cmd = cmd }

\* isGitRepo answered that the path is not under version control
NotVersionControlled == \E i \in ListCalls("isGitRepo") : ~lcalls[i].ok

EnumerationFailed == \E i \in ListCalls("git worktree list --porcelain") : ~lcalls[i].ok

\* C15: listing a path that is not under version control succeeds with an
\* empty list, and neither the enumeration nor a status query is issued;
\* when the path is under version control and the enumeration fails, the
\* listing reports an operation failure, not an empty list.
C15_NotARepoAndEnumerationFailure ==
    /\ NotVersionControlled
          => /\ lpc = "done"
             /\ lresp[1].success /\ lresp[1].status = 200 /\ lresp[1].worktrees = <<>>
             /\ ListCalls("git worktree list --porcelain") = {}
             /\ ListCalls("git status --porcelain") = {}
    /\ EnumerationFailed
          => /\ lpc = "done"
             /\ ~lresp[1].success /\ lresp[1].status = 500 /\ lresp[1].error # <<>>
             /\ ListCalls("git status --porcelain") = {}

\* a listing with details of a path that is not under version control
C15_Witness ==
    /\ NotVersionControlled
    /\ lreq.includeDetails
    /\ lpc = "done"
    /\ lresp = <<ListSuccess(<<>>)>>
    /\ Len(lcalls) = 1

Listed(paths) == { paths[i] : i \in 1 .. Len(paths) }

\* C16: after any sequence of initAllowedPaths and addAllowedPath calls,
\* isPathAllowed returns true for every path, those not in the list included,
\* and no entry that getAllowedPaths once returned has left the list.
C16_AllowListNotEnforced ==
    /\ \A filePath \in PathInputs : isPathAllowed(filePath)
    /\ checked # <<>> => checked[1].allowed
    /\ Listed(listed) \subseteq Listed(getAllowedPaths)

\* a path outside a list of two entries was allowed, and the list has grown
\* since it was last read
C16_Witness ==
    /\ checked # <<>>
    /\ checked[1].allowed
    /\ resolve(checked[1].path) \notin Listed(allowedPaths)
    /\ Len(allowedPaths) >= 2
    /\ listed # <<>>
    /\ Len(listed) < Len(allowedPaths)

\* C17: a switch-branch execution invokes stash pop at most once; after a
\* successful checkout and a stash pop that failed without a conflict
\* marker, no second stash pop precedes the failure response.
C17_RecoveryOnlyOnCheckoutFailure ==
    \A o \in Ops :
        /\ Cardinality(CallsOf(o, "git stash pop")) <= 1
        /\ \A i \in 1 .. Len(calls[o]) :
              (RestoreFailedAt(o, i) /\ ~HasConflictMarker(calls[o][i].stderr))
                  => i = Len(calls[o])

\* the status query of `o` answered, and reported no uncommitted change
CleanAt(o, i) ==
    /\ calls[o][i].cmd = "git status --porcelain"
    /\ calls[o][i].ok
    /\ ~NonBlankOutput(calls[o][i].stdout)

PushFailedAt(o, i) == calls[o][i].cmd = "git stash push" /\ ~calls[o][i].ok

\* C18: in a switch-branch execution, stash pop is invoked only after a
\* stash push of the same execution succeeded; after a clean status neither
\* stash push nor stash pop is invoked and a success has stashed = false;
\* after a failed stash push neither checkout nor stash pop is invoked and a
\* failure is reported; and a success has stashed = true exactly when the
\* status query reported a dirty worktree.
C18_StashCallsTiedToOwnShelve ==
    \A o \in Ops :
        /\ \A i \in CallsOf(o, "git stash pop") :
              \E j \in CallsOf(o, "git stash push") : j < i /\ calls[o][j].ok
        /\ (\E i \in 1 .. Len(calls[o]) : CleanAt(o, i))
              => /\ CallsOf(o, "git stash push") = {}
                 /\ CallsOf(o, "git stash pop") = {}
                 /\ (Done(o) /\ Reply(o).success) => ~Reply(o).stashed
        /\ (\E i \in 1 .. Len(calls[o]) : PushFailedAt(o, i))
              => /\ CallsOf(o, "git checkout") = {}
                 /\ CallsOf(o, "git stash pop") = {}
                 /\ Done(o)
                 /\ ~Reply(o).success
        /\ (Done(o) /\ Reply(o).success)
              => (Reply(o).stashed <=> \E i \in 1 .. Len(calls[o]) : DirtyAt(o, i))

\* one execution shelved, switched and restored; another stopped at its
\* failed stash push
C18_Witness ==
    \E o, p \in Ops :
        /\ Done(o) /\ Reply(o).success /\ Reply(o).stashed /\ ~Reply(o).stashConflict
        /\ CallsOf(o, "git stash pop") # {}
        /\ Done(p) /\ ~Reply(p).success
        /\ calls[p] # <<>>
        /\ PushFailedAt(p, Len(calls[p]))

\* a stash pop of `o` took the entry that `owner` had put on the stack
Popped(o, owner) ==
    \E k \in CallsOf(o, "git stash pop") :
        calls[o][k].ok /\ calls[o][k].entry # <<>> /\ calls[o][k].entry[1].owner = owner

\* the sequential contract of a success: the worktree is on the reported
\* branch as the response is sent, and what the operation shelved it has
\* restored itself
SequentialContract(o) ==
    (Done(o) /\ Served(o) /\ Reply(o).success)
        => /\ post[o].head = Reply(o).currentBranch
           /\ (Created(o) /\ ~Reply(o).stashConflict) => Popped(o, o)

\* C19: switch-branch operations of which one has ended before the next
\* starts each meet the sequential contract.  (When their calls interleave
\* on one worktree path the contract can be lost: C19_Witness.)
C19_SafeWhenSerialized ==
    ~overlap => \A o \in Ops : SequentialContract(o)

\* two overlapped operations on the same worktree path have ended: one
\* reported success with its target as currentBranch while the worktree was
\* on another branch, and one's stash pop took the entry the other shelved
C19_Witness ==
    \E o, p \in Ops :
        /\ o # p
        /\ overlap
        /\ Wt(o) \in WorktreePaths
        /\ Wt(o) = Wt(p)
        /\ Done(o) /\ Done(p)
        /\ Reply(o).success
        /\ Reply(o).currentBranch = req[o].branchName
        /\ post[o].head # Reply(o).currentBranch
        /\ (Popped(o, p) \/ Popped(p, o))
        /\ ~SequentialContract(o)

Identity(ws) ==
    [k \in 1 .. Len(ws) |-> [path |-> ws[k].path, branch |-> ws[k].branch, isMain |-> ws[k].isMain]]

\* C20: a listing with details issues exactly one status query per listed
\* worktree, in that worktree's path, and gives each entry the number of
\* non-blank lines of its status output as changedFilesCount and hasChanges
\* = (changedFilesCount > 0); a listing without details issues no status
\* query and its entries carry neither field; with or without details the
\* entries, their order, path, branch and isMain are those parsed from the
\* enumeration output.
C20_DetailAnnotation ==
    (lpc = "done" /\ Enumerated)
        => LET ws == lresp[1].worktrees IN
           /\ Identity(ws) = Identity(ParseWorktrees(lstdout))
           /\ IF lreq.includeDetails
              THEN /\ Cardinality(ListCalls("git status --porcelain")) = Len(ws)
                   /\ \A k \in 1 .. Len(ws) :
                         /\ StatusCall(k).cmd = "git status --porcelain"
                         /\ StatusCall(k).cwd = ws[k].path
                         /\ StatusCall(k).ok =>
                               ws[k].changedFilesCount =
                                   Defined(NonBlankLineCount(StatusCall(k).stdout))
                         /\ ws[k].changedFilesCount # Undefined
                         /\ ws[k].hasChanges = Defined(ws[k].changedFilesCount[1] > 0)
              ELSE /\ ListCalls("git status --porcelain") = {}
                   /\ \A k \in 1 .. Len(ws) :
                         ws[k].hasChanges = Undefined /\ ws[k].changedFilesCount = Undefined

\* a listing with details of two worktrees or more, the first clean, the
\* second with two changed files
C20_Witness ==
    /\ lpc = "done"
    /\ lreq.includeDetails
    /\ Enumerated
    /\ Len(lresp[1].worktrees) >= 2
    /\ StatusCall(1).ok /\ StatusCall(1).stdout = <<>>
    /\ lresp[1].worktrees[1].changedFilesCount = Defined(0)
    /\ lresp[1].worktrees[1].hasChanges = Defined(FALSE)
    /\ StatusCall(2).ok
    /\ lresp[1].worktrees[2].changedFilesCount = Defined(2)
    /\ lresp[1].worktrees[2].hasChanges = Defined(TRUE)

====
